---- MODULE Spec2Model ----
(***************************************************************************)
(* Model of python_backend/main.py: the FastAPI application with the one   *)
(* route POST /embed.  A request body is validated against EmbedRequest    *)
(* (pydantic), then the handler embed(req) runs line by line.  Requests    *)
(* are served concurrently (FastAPI runs a sync handler in a thread pool), *)
(* so the steps of different requests interleave.                          *)
(***************************************************************************)
EXTENDS Integers, Sequences, FiniteSets, TLC

(* ------------------------------ bounds --------------------------------- *)

\* number of requests the service receives in one run
NumRequests == 2

\* number of requests in the runs that post only valid huggingface requests
NumHFRequests == 3

\* length of the vector the default encoder returns (384 in the real model)
Dim == 2

Requests == 1..(IF NumRequests > NumHFRequests THEN NumRequests ELSE NumHFRequests)

(* --------------------------- request inputs ---------------------------- *)

HF == "huggingface"
OPENAI == "openai"
CLAUDE == "claude"

\* the values a client may put in each field of the JSON body
FieldValues(k) ==
    CASE k = "text"     -> {"", "hello"}
      [] k = "provider" -> {HF, OPENAI, CLAUDE, "cohere"}
      [] k = "model"    -> {"", "paraphrase-MiniLM-L3-v2", "no-such-model"}

AllFieldValues == UNION {FieldValues(k) : k \in {"text", "provider", "model"}}

\* a JSON body is a partial map: a field may be omitted
JsonBodies ==
    UNION { {b \in [D -> AllFieldValues] : \A k \in D : b[k] \in FieldValues(k)} :
            D \in SUBSET {"text", "provider", "model"} }

\* the bodies posted in the runs of Spec: any text, provider and model, the
\* first two possibly omitted (the omitted model is posted in SpecHF)
MainBodies == {b \in JsonBodies : "model" \in DOMAIN b}

(* ------------------------ EmbedRequest (pydantic) ---------------------- *)

\* Literal['huggingface', 'openai', 'claude']
ProviderLiteral == {HF, OPENAI, CLAUDE}

ValidationErrorsTextOptional(b) ==
    IF "provider" \in DOMAIN b /\ b["provider"] \notin ProviderLiteral
      THEN {"provider"} ELSE {}

\* the validation errors pydantic reports for a body, by field: text is
\* required (any str, the empty one included), provider must be one of the
\* literals when given, model is any str
ValidationErrors(b) ==
    (IF "text" \notin DOMAIN b THEN {"text"} ELSE {})
      \cup
    (IF "provider" \in DOMAIN b /\ b["provider"] \notin ProviderLiteral
       THEN {"provider"} ELSE {})

\* the EmbedRequest object built from a body that passed validation:
\* defaults fill the omitted fields provider and model
EmbedRequest(b) ==
    [text     |-> IF "text" \in DOMAIN b THEN b["text"] ELSE "",
     provider |-> IF "provider" \in DOMAIN b THEN b["provider"] ELSE HF,
     model    |-> IF "model" \in DOMAIN b THEN b["model"] ELSE ""]

\* detail of FastAPI's 422 response: which fields failed and why
ValidationDetail(errs) ==
    CASE errs = {"text"}             -> "missing: body.text"
      [] errs = {"provider"}         -> "literal_error: body.provider"
      [] errs = {"text", "provider"} -> "missing: body.text; literal_error: body.provider"

(* ------------------------------ responses ------------------------------ *)

NoResponse == [status |-> 0, body |-> [none |-> TRUE]]

\* RequestValidationError handler of FastAPI
ValidationResponse(errs) ==
    [status |-> 422, body |-> [detail |-> ValidationDetail(errs)]]

\* raise HTTPException(status_code=..., detail=...)
HTTPException(status_code, detail) ==
    [status |-> status_code, body |-> [detail |-> detail]]

\* an exception that is not an HTTPException leaves the handler: the server
\* answers 500 with the plain text "Internal Server Error"; the exception's
\* message is not part of the response
UnhandledResponse(msg) ==
    [status |-> 500, body |-> [text |-> "Internal Server Error"]]

(* ------------------------------ the encoder ---------------------------- *)

DefaultModelName == "all-MiniLM-L6-v2"

\* names for which SentenceTransformer(name) loads an encoder
LoadableModels == {DefaultModelName, "paraphrase-MiniLM-L3-v2"}

\* message of the exception SentenceTransformer(name) raises otherwise
LoadErrorMessage(name) ==
    CASE name = "no-such-model" -> "no-such-model is not a valid model identifier"
      [] OTHER                  -> "model name is not a valid model identifier"

EncodeErrorMessage == "encode failed"

ModelCode(name) == IF name = DefaultModelName THEN 1 ELSE 2
ModelDim(name) == IF name = DefaultModelName THEN Dim ELSE Dim + 1
TextCode(text) == IF text = "" THEN 0 ELSE 1

\* encode(text) of an encoder loaded for name: a numpy array, indexed from
\* 0, a deterministic function of the model and the text
encode(name, text) ==
    [i \in 0..(ModelDim(name) - 1) |-> 100 * ModelCode(name) + 10 * TextCode(text) + i]

tolistDropLast(arr) ==
    [i \in 1..(Cardinality(DOMAIN arr) - 1) |-> arr[i - 1]]

\* ndarray.tolist(): the Python list with the same elements in the same order
tolist(arr) ==
    [i \in 1..Cardinality(DOMAIN arr) |-> arr[i - 1]]

(* ------------------------------- state --------------------------------- *)

VARIABLES
    pc,            \* position of each request: idle, construct, encode, done
    body,          \* the JSON body each request was posted with
    req,           \* the validated EmbedRequest of each request
    model_name,    \* local variable model_name of each running embed call
    model,         \* local variable model: reference to an encoder instance
    response,      \* the HTTP response sent for each request
    responses,     \* number of responses sent for each request
    exc,           \* message of the exception the encoder raised for each request
    heap,          \* encoder instances: reference -> name the instance was loaded for
    hf_model,      \* module-level hf_model: reference to the startup encoder
    ctor_calls,    \* per request, the names SentenceTransformer(...) was called with
    encode_calls   \* per request, the <<model name, text>> pairs encode was called with

vars == <<pc, body, req, model_name, model, response, responses, exc, heap,
          hf_model, ctor_calls, encode_calls>>

None == "<None>"
NoBody == [none |-> TRUE]
NoReq == [none |-> TRUE]
Nil == -1
StartupRef == 0
Refs == {StartupRef} \cup Requests

Init ==
    /\ pc = [r \in Requests |-> "idle"]
    /\ body = [r \in Requests |-> NoBody]
    /\ req = [r \in Requests |-> NoReq]
    /\ model_name = [r \in Requests |-> None]
    /\ model = [r \in Requests |-> Nil]
    /\ response = [r \in Requests |-> NoResponse]
    /\ responses = [r \in Requests |-> 0]
    /\ exc = [r \in Requests |-> None]
    /\ heap = [i \in Refs |-> IF i = StartupRef THEN DefaultModelName ELSE None]
    /\ hf_model = StartupRef
    /\ ctor_calls = [r \in Requests |-> <<>>]
    /\ encode_calls = [r \in Requests |-> <<>>]

(* ------------------------------ operations ----------------------------- *)

\* the response is sent and the request is over
Respond(r, resp) ==
    /\ response' = [response EXCEPT ![r] = resp]
    /\ responses' = [responses EXCEPT ![r] = @ + 1]
    /\ pc' = [pc EXCEPT ![r] = "done"]

ResolveModelNameVerbatim(m) == m

\* req.model or 'all-MiniLM-L6-v2'
ResolveModelName(m) == IF m = "" THEN DefaultModelName ELSE m

\* entry of embed(req), up to the first call of the encoder:
\* if req.provider == 'huggingface': model_name = ...   else: raise 400
Dispatch(r, q) ==
    IF q.provider = HF
      THEN /\ model_name' = [model_name EXCEPT ![r] = ResolveModelName(q.model)]
           /\ pc' = [pc EXCEPT ![r] = "construct"]
           /\ UNCHANGED <<response, responses>>
      ELSE /\ Respond(r, HTTPException(400, "Unknown provider"))
           /\ UNCHANGED model_name

\* POST /embed arrives: FastAPI validates the body against EmbedRequest and
\* either answers 422 or calls embed(req), which runs to its first call of
\* the encoder or to its raise
Post(r, b) ==
    /\ pc[r] = "idle"
    /\ IF r = 1 THEN TRUE ELSE pc[r - 1] # "idle"
    /\ body' = [body EXCEPT ![r] = b]
    /\ IF ValidationErrors(b) # {}
         THEN /\ Respond(r, ValidationResponse(ValidationErrors(b)))
              /\ UNCHANGED <<req, model_name>>
         ELSE /\ req' = [req EXCEPT ![r] = EmbedRequest(b)]
              /\ Dispatch(r, EmbedRequest(b))
    /\ UNCHANGED <<model, exc, heap, hf_model, ctor_calls, encode_calls>>

OnRaiseRetry(r, msg) ==
    /\ exc' = [exc EXCEPT ![r] = msg]
    /\ pc' = [pc EXCEPT ![r] = "construct"]
    /\ UNCHANGED <<response, responses>>

\* the encoder raised inside embed: nothing catches it on the huggingface
\* path, so it leaves the handler
OnRaise(r, msg) ==
    /\ exc' = [exc EXCEPT ![r] = msg]
    /\ Respond(r, UnhandledResponse(msg))

NewInstanceShared(r) == hf_model

\* reference of the object SentenceTransformer(...) returns to request r:
\* a new object on every call
NewInstance(r) == r

ConstructCached(r) ==
    /\ pc[r] = "construct"
    /\ IF model_name[r] = heap[hf_model]
         THEN /\ model' = [model EXCEPT ![r] = hf_model]
              /\ pc' = [pc EXCEPT ![r] = "encode"]
              /\ UNCHANGED <<heap, ctor_calls, exc, response, responses>>
         ELSE /\ ctor_calls' = [ctor_calls EXCEPT ![r] = Append(@, model_name[r])]
              /\ IF model_name[r] \in LoadableModels
                   THEN /\ heap' = [heap EXCEPT ![NewInstance(r)] = model_name[r]]
                        /\ model' = [model EXCEPT ![r] = NewInstance(r)]
                        /\ pc' = [pc EXCEPT ![r] = "encode"]
                        /\ UNCHANGED <<exc, response, responses>>
                   ELSE /\ OnRaise(r, LoadErrorMessage(model_name[r]))
                        /\ UNCHANGED <<heap, model>>
    /\ UNCHANGED <<body, req, model_name, hf_model, encode_calls>>

\* model = SentenceTransformer(model_name)
Construct(r) ==
    /\ pc[r] = "construct"
    /\ ctor_calls' = [ctor_calls EXCEPT ![r] = Append(@, model_name[r])]
    /\ IF model_name[r] \in LoadableModels
         THEN /\ heap' = [heap EXCEPT ![NewInstance(r)] = model_name[r]]
              /\ model' = [model EXCEPT ![r] = NewInstance(r)]
              /\ pc' = [pc EXCEPT ![r] = "encode"]
              /\ UNCHANGED <<exc, response, responses>>
         ELSE /\ OnRaise(r, LoadErrorMessage(model_name[r]))
              /\ UNCHANGED <<heap, model>>
    /\ UNCHANGED <<body, req, model_name, hf_model, encode_calls>>

\* emb = model.encode(req.text).tolist(); return {...}
\* encode either returns the array or raises (memory, device, I/O)
Encode(r) ==
    /\ pc[r] = "encode"
    /\ encode_calls' = [encode_calls EXCEPT ![r] = Append(@, <<heap[model[r]], req[r].text>>)]
    /\ \/ /\ Respond(r, [status |-> 200,
                         body |-> [embedding |-> tolist(encode(heap[model[r]], req[r].text)),
                                   provider  |-> HF,
                                   model     |-> model_name[r]]])
          /\ UNCHANGED exc
       \/ OnRaise(r, EncodeErrorMessage)
    /\ UNCHANGED <<body, req, model_name, model, heap, hf_model, ctor_calls>>

Next ==
    \/ \E r \in 1..NumRequests, b \in MainBodies : Post(r, b)
    \/ \E r \in Requests : Construct(r)
    \/ \E r \in Requests : Encode(r)

Spec == Init /\ [][Next]_vars

(* ---- runs of valid huggingface requests only (three or more of them) --- *)

\* provider given as huggingface; model omitted or a second loadable model

HFBodies ==
    {b \in JsonBodies : /\ DOMAIN b \in {{"text", "provider"}, {"text", "provider", "model"}}
                        /\ b["provider"] = HF
                        /\ ("model" \in DOMAIN b => b["model"] = "paraphrase-MiniLM-L3-v2")}

NextHF ==
    \/ \E r \in 1..NumHFRequests, b \in HFBodies : Post(r, b)
    \/ \E r \in Requests : Construct(r)
    \/ \E r \in Requests : Encode(r)

SpecHF == Init /\ [][NextHF]_vars

(* --------------------- embed run without interleaving ------------------ *)

\* the responses POST /embed can give to body b when the request is served
\* alone, from validation to the return statement
ServedAlone(b) ==
    IF ValidationErrors(b) # {}
      THEN {ValidationResponse(ValidationErrors(b))}
      ELSE LET q == EmbedRequest(b) IN
           IF q.provider # HF
             THEN {HTTPException(400, "Unknown provider")}
             ELSE LET n == ResolveModelName(q.model) IN
                  IF n \notin LoadableModels
                    THEN {UnhandledResponse(LoadErrorMessage(n))}
                    ELSE {[status |-> 200,
                           body |-> [embedding |-> tolist(encode(n, q.text)),
                                     provider  |-> HF,
                                     model     |-> n]],
                          UnhandledResponse(EncodeErrorMessage)}

(* ------------------------------ properties ----------------------------- *)

Done(r) == pc[r] = "done"
Posted(r) == pc[r] # "idle"
Valid(r) == Posted(r) /\ ValidationErrors(body[r]) = {}
EncoderInvoked(r) == ctor_calls[r] # <<>> \/ encode_calls[r] # <<>>
GivenProvider(r) == IF "provider" \in DOMAIN body[r] THEN body[r]["provider"] ELSE "huggingface"
GivenModel(r) == IF "model" \in DOMAIN body[r] THEN body[r]["model"] ELSE ""
Success(r) == Done(r) /\ response[r].status = 200

TypeOK ==
    /\ pc \in [Requests -> {"idle", "construct", "encode", "done"}]
    /\ \A r \in Requests : responses[r] \in 0..1

\* C1: every request whose provider is none of huggingface, openai, claude
\* is answered 400 with detail "Unknown provider", and the encoder is never
\* invoked for it.
C1_UnknownProviderIs400 ==
    \A r \in Requests :
        (Done(r) /\ GivenProvider(r) \notin {"huggingface", "openai", "claude"})
          => /\ response[r].status = 400
             /\ response[r].body = [detail |-> "Unknown provider"]
             /\ ~EncoderInvoked(r)

\* C2: a request with provider openai or claude has its model name resolved
\* (the provider's default when model is empty) and ends in 200 or 500,
\* never in 400 "Unknown provider".
C2_RemoteProvidersNot400 ==
    \A r \in Requests :
        (Done(r) /\ Valid(r) /\ GivenProvider(r) \in {"openai", "claude"})
          => /\ response[r].status \in {200, 500}
             /\ response[r] # [status |-> 400, body |-> [detail |-> "Unknown provider"]]
             /\ model_name[r] =
                  (IF GivenModel(r) # "" THEN GivenModel(r)
                   ELSE IF GivenProvider(r) = "openai" THEN "text-embedding-ada-002"
                   ELSE "claude-3-sonnet-20240229")

\* C3: for a huggingface request (provider given or omitted) with an empty
\* model, the encoder is constructed for "all-MiniLM-L6-v2" and the success
\* response's model field is "all-MiniLM-L6-v2".
C3_DefaultModel ==
    \A r \in Requests :
        (Valid(r) /\ GivenProvider(r) = "huggingface" /\ GivenModel(r) = "")
          => /\ pc[r] \in {"encode", "done"} => ctor_calls[r] = <<"all-MiniLM-L6-v2">>
             /\ \A i \in 1..Len(encode_calls[r]) : encode_calls[r][i][1] = "all-MiniLM-L6-v2"
             /\ Success(r) => response[r].body.model = "all-MiniLM-L6-v2"

C3_Witness ==
    \E r1, r2 \in Requests :
        /\ Success(r1) /\ Success(r2)
        /\ "provider" \notin DOMAIN body[r1] /\ GivenModel(r1) = ""
        /\ "provider" \in DOMAIN body[r2] /\ body[r2]["provider"] = "huggingface"
        /\ GivenModel(r2) = ""
        /\ response[r1].body.model = "all-MiniLM-L6-v2"
        /\ response[r2].body.model = "all-MiniLM-L6-v2"

\* C4: for a request with a non-empty model, under every recognized provider,
\* the encoder is invoked with exactly that name, the success response's
\* model field is that name, and the gateway does not reject the request.
C4_ExplicitModelVerbatim ==
    \A r \in Requests :
        (Done(r) /\ Valid(r) /\ GivenModel(r) # "")
          => /\ ctor_calls[r] = <<GivenModel(r)>>
             /\ Success(r) => response[r].body.model = GivenModel(r)
             /\ response[r].status # 400

\* C5: when the encoder raises for a request (construction or encode), the
\* request ends in a 500 response whose detail is the encoder's message.
C5_EncoderErrorIs500WithMessage ==
    \A r \in Requests :
        (Done(r) /\ exc[r] # None)
          => /\ response[r].status = 500
             /\ response[r].body = [detail |-> exc[r]]

\* C6: a 200 response has exactly the fields embedding, provider, model;
\* provider is the request's provider, model the resolved model name, and
\* embedding the encoder's vector for (text, resolved model), element by
\* element in the same order.
C6_SuccessShape ==
    \A r \in Requests :
        Success(r) =>
          LET n == IF GivenModel(r) = "" THEN "all-MiniLM-L6-v2" ELSE GivenModel(r)
              v == encode(n, body[r]["text"])
              e == response[r].body.embedding
          IN /\ DOMAIN response[r].body = {"embedding", "provider", "model"}
             /\ response[r].body.provider = GivenProvider(r)
             /\ response[r].body.model = n
             /\ Len(e) = Cardinality(DOMAIN v)
             /\ \A i \in 1..Len(e) : e[i] = v[i - 1]

C6_Witness ==
    \E r \in Requests :
        /\ Success(r)
        /\ GivenModel(r) = "paraphrase-MiniLM-L3-v2"
        /\ Len(response[r].body.embedding) = Dim + 1

\* C7: two huggingface requests with the same text and the same resolved
\* model return the same embedding, whatever other requests are served
\* before, between or concurrently with them.
C7_SameInputSameVector ==
    \A r1, r2 \in Requests :
        (/\ Success(r1) /\ Success(r2)
         /\ body[r1]["text"] = body[r2]["text"]
         /\ response[r1].body.model = response[r2].body.model)
          => response[r1].body.embedding = response[r2].body.embedding

C7_Witness ==
    \E r1, r2, r3 \in Requests :
        /\ r1 < r2 /\ r2 < r3
        /\ Success(r1) /\ Success(r2) /\ Success(r3)
        /\ body[r1]["text"] = body[r3]["text"]
        /\ response[r1].body.model = response[r3].body.model
        /\ response[r2].body.model # response[r1].body.model
        /\ response[r1].body.embedding = response[r3].body.embedding

\* C8: a request gets exactly one response when it ends and none before,
\* the encoder is constructed and called at most once per request, and a
\* request whose encoder raised is over, with an error and no embedding.
C8_OneOutcomeNoRetry ==
    \A r \in Requests :
        /\ responses[r] = (IF Done(r) THEN 1 ELSE 0)
        /\ Done(r) <=> response[r] # NoResponse
        /\ Len(ctor_calls[r]) <= 1
        /\ Len(encode_calls[r]) <= 1
        /\ exc[r] # None => /\ Done(r)
                            /\ response[r].status # 200
                            /\ "embedding" \notin DOMAIN response[r].body

C8_Witness ==
    \E r \in Requests :
        /\ Done(r) /\ exc[r] = "no-such-model is not a valid model identifier"
        /\ ctor_calls[r] = <<"no-such-model">>
        /\ encode_calls[r] = <<>>
        /\ responses[r] = 1

\* C9 (as claimed): no request whose text is the empty string reaches the
\* encoder; it ends in a validation error.
C9_EmptyTextRejected ==
    \A r \in Requests :
        (Posted(r) /\ "text" \in DOMAIN body[r] /\ body[r]["text"] = "")
          => /\ ~EncoderInvoked(r)
             /\ Done(r) => response[r].status = 422

\* C9 (amended): text is a required string.  A request without a text field
\* never reaches the encoder and ends in a 422 validation error; a request
\* whose text is the empty string is not rejected for its text, and on the
\* huggingface path the encoder is called with the empty string.
C9_TextRequiredEmptyAccepted ==
    \A r \in Requests :
        /\ (Posted(r) /\ "text" \notin DOMAIN body[r])
             => /\ ~EncoderInvoked(r)
                /\ Done(r) /\ response[r].status = 422
        /\ (Posted(r) /\ "text" \in DOMAIN body[r] /\ body[r]["text"] = "")
             => /\ GivenProvider(r) \in {"huggingface", "openai", "claude"}
                     => ~(Done(r) /\ response[r].status = 422)
                /\ \A i \in 1..Len(encode_calls[r]) : encode_calls[r][i][2] = ""
                /\ (Done(r) /\ GivenProvider(r) = "huggingface"
                      /\ GivenModel(r) # "no-such-model")
                     => Len(encode_calls[r]) = 1

C9_Witness ==
    \E r1, r2 \in Requests :
        /\ Done(r1) /\ "text" \notin DOMAIN body[r1] /\ response[r1].status = 422
        /\ Success(r2) /\ body[r2]["text"] = "" /\ encode_calls[r2] = <<<<"all-MiniLM-L6-v2", "">>>>

\* C10: requests share no mutable state.  Every huggingface request
\* constructs its own encoder instance (one construction per huggingface
\* request that got that far, none for other requests, no instance used by
\* two requests), the startup encoder hf_model is never replaced and never
\* used by a request, and every response is one the request gets when it is
\* served alone.
C10_NoSharedState ==
    /\ hf_model = StartupRef
    /\ heap[StartupRef] = "all-MiniLM-L6-v2"
    /\ \A r \in Requests :
        /\ model[r] # hf_model
        /\ Len(ctor_calls[r]) =
             (IF Valid(r) /\ GivenProvider(r) = "huggingface" /\ pc[r] \in {"encode", "done"}
                THEN 1 ELSE 0)
        /\ \A r2 \in Requests : (r2 # r /\ model[r] # Nil) => model[r2] # model[r]
        /\ Done(r) => response[r] \in ServedAlone(body[r])

C10_Witness ==
    \E r1, r2 \in Requests :
        /\ r1 # r2
        /\ Success(r1) /\ Success(r2)
        /\ response[r1].body.model = response[r2].body.model
        /\ ctor_calls[r1] = ctor_calls[r2] /\ Len(ctor_calls[r1]) = 1
        /\ model[r1] # model[r2]
====
